---- MODULE Spec2Model ----
(***************************************************************************)
(* State-machine model of the IELTS speaking page (src/src/app/page.tsx)   *)
(* and of the API routes it calls.                                         *)
(*                                                                         *)
(* React state hooks are the variables.  One action is one event handler, *)
(* interval callback, or the continuation of an async function after an   *)
(* await, executed together with the re-render and the effects that the   *)
(* re-render runs.  A handler reads the state of the render it was        *)
(* created in: a handler started by a click reads the current state, the  *)
(* continuation of an async function reads the values captured when the   *)
(* function was called.  Those captured values travel in the thread       *)
(* records of the variable threads.  Functional updates                   *)
(* (setX(prev => ...)) read the current state.                            *)
(***************************************************************************)
EXTENDS Integers, Sequences, FiniteSets, Bags, TLC

\* ------------------------------------------------------------------ bounds
\* Countdown steps per minute of a part's duration.  The page uses 60
\* (page.tsx:123); the countdown is modelled at a coarser resolution.
TicksPerMinute == 1
\* Most irregular events in one run of the page: a whitespace-only
\* transcription, a failed dialogue request, an answer to the scoring prompt
\* that is not a well-formed Evaluation, a click on Voice Conversation Mode
\* while it is already on, a request sent or a session started while a
\* request is still awaiting its response.
MaxIrregular == 1
\* Math.random() is one of 0/RandomSteps, 1/RandomSteps, ... below 1.
RandomSteps == 5

\* ------------------------------------------------------------ plain data
\* Texts are sequences of characters, so that join and trim are computed.
Texts == { <<"a">>, <<" ">> }

Parts == {1, 2, 3}

\* IELTS_TIMING[part].duration, in minutes
Duration(part) == CASE part = 1 -> 4 [] part = 2 -> 3 [] OTHER -> 5

QuestionsPerTopic == 3
Topics == 2
Part3Questions == 4

\* initializeTestSession:  timing.duration * 60
SecondsPerMinute == 60

\* a Part 1 of one topic only; C21 does not hold of it
TotalQuestionsFor_OneTopic(part) ==
    IF part = 1 THEN QuestionsPerTopic
    ELSE IF part = 2 THEN 1
    ELSE Part3Questions

\* the totalQuestions computed by initializeTestSession
TotalQuestionsFor(part) ==
    IF part = 1 THEN QuestionsPerTopic * Topics
    ELSE IF part = 2 THEN 1
    ELSE Part3Questions

\* the Question Bank: the questions of each part, each named by its subject
questions ==
    [ part \in Parts |->
        CASE part = 1 -> << <<"hometown">>, <<"work or study">>, <<"hobbies">>,
                            <<"daily routine">>, <<"family">> >>
          [] part = 2 -> << <<"childhood event">>, <<"influential person">>,
                            <<"place to visit">>, <<"skill to learn">> >>
          [] OTHER    -> << <<"technology">>, <<"social media">>, <<"big city">>,
                            <<"cultural heritage">>, <<"traditional skills">> >> ]

\* the values Math.random() takes, as numerators over RandomSteps
Randoms == 0 .. (RandomSteps - 1)

\* Math.floor(random * length)
FloorOfRandomTimes(random, length) == (random * length) \div RandomSteps

\* a first question always taken from Part 1; C27 does not hold of it
FirstQuestion_OfPart1(part, random) ==
    questions[1][FloorOfRandomTimes(random, Len(questions[1])) + 1]

\* qs[Math.floor(Math.random() * qs.length)]  with qs = questions[testPart]
FirstQuestion(part, random) ==
    questions[part][FloorOfRandomTimes(random, Len(questions[part])) + 1]

\* the content of a question message where the model leaves the wording out
SomeQuestion == <<>>

RECURSIVE Join(_, _)
\* Array.prototype.join
Join(list, sep) ==
    IF list = <<>> THEN <<>>
    ELSE IF Len(list) = 1 THEN list[1]
    ELSE list[1] \o sep \o Join(Tail(list), sep)

RECURSIVE TrimStart(_)
TrimStart(s) ==
    IF s = <<>> THEN <<>>
    ELSE IF Head(s) = " " THEN TrimStart(Tail(s))
    ELSE s

RECURSIVE TrimEnd(_)
TrimEnd(s) ==
    IF s = <<>> THEN <<>>
    ELSE IF s[Len(s)] = " " THEN TrimEnd(SubSeq(s, 1, Len(s) - 1))
    ELSE s

\* String.prototype.trim
Trim(s) == TrimEnd(TrimStart(s))

\* what the chat model may answer to the scoring prompt: no content (null or
\* the empty string), text that is not JSON, JSON of another shape than an
\* Evaluation, or a well-formed Evaluation
ModelContents == { "none", "text", "json", "evaluation" }

\* JSON.parse(content || '{}'): the parsed value, or "throws"
ParseContent(content) ==
    CASE content = "none" -> "emptyObject"
      [] content = "text" -> "throws"
      [] OTHER -> content

\* the evaluate route after the chat completion: the parsed value as a 200
\* response, or the 500 response of its catch block
EvaluateRoute(content) ==
    IF ParseContent(content) = "throws"
    THEN [ok |-> FALSE, data |-> "error"]
    ELSE [ok |-> TRUE, data |-> ParseContent(content)]

\* a ConversationMessage: role, what it says, and (for a candidate) its text
Msg(role, kind, text) == [role |-> role, kind |-> kind, text |-> text]

\* --------------------------------------------------------------- variables
VARIABLES
    testPart,           \* useState(1)
    conversationMode,   \* useState(false)
    conversation,       \* useState<ConversationMessage[]>([])
    testSession,        \* useState<TestSession | null>(null): <<>> or <<session>>
    timeRemaining,      \* useState<number>(0)
    testComplete,       \* useState(false)
    allTranscriptions,  \* useState<string[]>([])
    evaluation,         \* useState<Evaluation | null>(null): <<>> or <<evaluation>>
    loading,            \* useState(false)
    examinerSpeaking,   \* useState(false)
    transcription,      \* useState(''): <<>> is the empty string
    timerRef,           \* useRef(null): what timerRef.current refers to, "none" (null),
                        \* a "live" interval or a "cleared" one
    strayIntervals,     \* number of live intervals that timerRef.current does not refer to
    threads,            \* bag of async calls awaiting a response
    gen,                \* history: identity of the session initialised last (0: none yet)
    irregular,          \* history: number of irregular events so far
    scoringReqs,        \* history: scoring requests issued by endTest since the last session start
    lastOp,             \* history: "submitRefused" after a refused submission,
                        \* "speechFailed" after a failed speech request, else "step"
    route               \* the API routes, seen from a client: <<>> or the request
                        \* sent last with its response (<<>> while it is handled)

\* the state of the page
pageVars == << testPart, conversationMode, conversation, testSession, timeRemaining,
               testComplete, allTranscriptions, evaluation, loading, examinerSpeaking,
               transcription, timerRef, strayIntervals, threads, gen, irregular,
               scoringReqs, lastOp >>

vars == << pageVars, route >>

\* an async call in flight, with the values its continuation captured
\* kind: the handler that made the call; stage: the fetch it awaits; gen:
\* the session it was made in; part: testPart of its closure; text: the
\* transcription it sent for scoring; complete: whether the dialogue route
\* answers with testComplete; at: allTranscriptions of its closure, kept
\* only where the continuation reads it (endTest after testComplete)
Thread(kind, stage, g, part, text, complete, at) ==
    [kind |-> kind, stage |-> stage, gen |-> g, part |-> part, text |-> text,
     complete |-> complete, at |-> IF complete THEN at ELSE <<>>]

\* sending a request or starting a session is irregular when a request is in flight
Overlaps == threads # EmptyBag
CanSend == Overlaps => irregular < MaxIrregular
Sent == IF Overlaps THEN irregular + 1 ELSE irregular

InFlight == BagCardinality(threads)
Spawn(t) == threads (+) SetToBag({t})
Finish(t) == threads (-) SetToBag({t})
Replace(t, u) == (threads (-) SetToBag({t})) (+) SetToBag({u})

\* session identities in use: the last session's and those of calls in flight
GensInUse == {gen} \cup { t.gen : t \in BagToSet(threads) }

\* the least session identity not in use
FreshGen == CHOOSE g \in 1..(InFlight + 2) : g \notin GensInUse /\ \A h \in 1..(g - 1) : h \in GensInUse

HasSession == testSession # <<>>
Session == testSession[1]

Init ==
    /\ testPart = 1
    /\ conversationMode = FALSE
    /\ conversation = <<>>
    /\ testSession = <<>>
    /\ timeRemaining = 0
    /\ testComplete = FALSE
    /\ allTranscriptions = <<>>
    /\ evaluation = <<>>
    /\ loading = FALSE
    /\ examinerSpeaking = FALSE
    /\ transcription = <<>>
    /\ timerRef = "none"
    /\ strayIntervals = 0
    /\ threads = EmptyBag
    /\ gen = 0
    /\ irregular = 0
    /\ scoringReqs = <<>>
    /\ lastOp = "step"
    /\ route = <<>>

\* ------------------------------------------------------- pieces of handlers
\* initializeTestSession: the TestSession it builds
NewSession(part) ==
    [questionsAsked |-> 0, totalQuestions |-> TotalQuestionsFor(part), isComplete |-> FALSE]

\* the timeRemaining set by initializeTestSession
InitialTime(part) == Duration(part) * TicksPerMinute

\* a countdown that loses two units per step; C8 does not hold of it
TimerNext_ByTwo(prev) == IF prev <= 1 THEN 0 ELSE prev - 2

\* the updater of the interval callback:  prev <= 1 ? 0 : prev - 1
TimerNext(prev) == IF prev <= 1 THEN 0 ELSE prev - 1

\* an interval that is kept at 0; C25 does not hold of it
TimerRuns_AtZero == conversationMode /\ HasSession /\ timeRemaining >= 0

\* a countdown that stops once the session is complete; C12 does not hold of it
TimerRuns_UntilComplete ==
    conversationMode /\ HasSession /\ timeRemaining > 0 /\ ~Session.isComplete

\* the condition under which the timer effect creates an interval
TimerRuns == conversationMode /\ HasSession /\ timeRemaining > 0

\* a clearInterval without effect; C30 does not hold of it
ClearInterval_Nothing(ref) == ref

\* if (timerRef.current) clearInterval(timerRef.current)
ClearInterval(ref) == IF ref = "live" THEN "cleared" ELSE ref

\* the dependencies of the timer effect
TimerDeps == << conversationMode, testSession, timeRemaining >>

\* the timer effect after the render that follows a handler: when a
\* dependency changed, the cleanup of the previous run and then the body,
\* which stores a new interval in timerRef.current under its condition.
\* ref is timerRef.current as the handler left it.  (React compares
\* testSession by identity and so re-runs the effect also for an equal new
\* object; such a re-run clears and creates again, with the same outcome.)
TimerEffect(ref) ==
    IF TimerDeps' # TimerDeps
    THEN /\ timerRef' = IF TimerRuns' THEN "live" ELSE ClearInterval(ref)
         /\ strayIntervals' =
                strayIntervals + (IF TimerRuns' /\ ClearInterval(ref) = "live" THEN 1 ELSE 0)
    ELSE /\ timerRef' = ref
         /\ UNCHANGED strayIntervals

\* some interval created by the timer effect has not been cleared
IntervalLive == timerRef = "live" \/ strayIntervals > 0

\* an endTest that reopens the session; C23 does not hold of it
Complete_Reopens(ts) == IF ts = <<>> THEN <<>> ELSE << [ts[1] EXCEPT !.isComplete = FALSE] >>

\* an endTest that leaves the completion flag alone; C11 does not hold of it
Complete_Unchanged(ts) == ts

\* endTest:  setTestSession(prev => prev ? { ...prev, isComplete: true } : null)
Complete(ts) == IF ts = <<>> THEN <<>> ELSE << [ts[1] EXCEPT !.isComplete = TRUE] >>

\* endTest:  allTranscriptions.join(' ')
Combined(at) == Join(at, <<" ">>)

\* an endTest that asks for a score whatever the transcript; C13 does not hold of it
WantsScoring_Always(at) == TRUE

\* endTest:  if (combinedTranscription.trim())
WantsScoring(at) == Trim(Combined(at)) # <<>>

\* endTest suspends either in evaluateCompleteTest (fetch /api/evaluate) or,
\* with a blank transcript, in speakText (fetch /api/speak)
EndTestThread(at, part) ==
    IF WantsScoring(at)
    THEN Thread("endTest", "evaluate", gen, part, Combined(at), FALSE, <<>>)
    ELSE Thread("endTest", "speak", gen, part, <<>>, FALSE, <<>>)

\* the scoring request of evaluateCompleteTest, as recorded in the history
ScoringReq(at, part, g) == [transcript |-> Combined(at), part |-> part, gen |-> g]

\* a guard that lets a completed session through; C10 does not hold of it
Refuses_OnlyWithoutSession(ts) == ts = <<>>

\* processUserResponse:  if (!testSession || testSession.isComplete) return
Refuses(ts) == ts = <<>> \/ ts[1].isComplete

\* a submission that also raises the target; C22 does not hold of it
Asked_GrowsTotal(ts) ==
    << [ts[1] EXCEPT !.questionsAsked = @ + 1, !.totalQuestions = @ + 1] >>

\* a count that a submission does not raise; C14 does not hold of it
Asked_NotCounted(ts) == ts

\* processUserResponse:  { ...testSession, questionsAsked: questionsAsked + 1 }
Asked(ts) == << [ts[1] EXCEPT !.questionsAsked = @ + 1] >>

\* an end-of-questions test that is one question late; C7 does not hold of it
Exhausted_Late(ts) == ts[1].questionsAsked > ts[1].totalQuestions

\* processUserResponse:  updatedSession.questionsAsked >= updatedSession.totalQuestions
Exhausted(ts) == ts[1].questionsAsked >= ts[1].totalQuestions

\* a catch block that only logs the failure; C15 does not hold of it
WithExaminerTurn_NoFallback(conv, ok) ==
    IF ok THEN Append(conv, Msg("assistant", "reply", <<>>)) ELSE conv

\* processUserResponse:  setConversation(prev => [...prev, examinerMessage]),
\* with the examiner's reply after the fetch or the fallback in the catch block
WithExaminerTurn(conv, ok) ==
    Append(conv, Msg("assistant", IF ok THEN "reply" ELSE "fallback", <<>>))

\* a route that counts the question it is about to ask; C28 does not hold of it
RouteTestComplete_CountsNext(q, total, time) == q + 1 >= total \/ time <= 0

\* the conversation route's early exit:  questionsAsked >= totalQuestions || timeRemaining <= 0
RouteTestComplete(q, total, time) == q >= total \/ time <= 0

\* ------------------------------------------------------------- API routes
RouteNames == { "speak", "evaluate", "conversation", "transcribe" }

\* the required input of a request: text, transcription or userResponse in
\* the JSON body ("absent": no such key, "empty": '', "blank": whitespace
\* only, "text": any other string), or the entry 'audio' of the form data
\* ("absent": null, "empty": a field with the value '', "text": a field
\* with another string, "file": a File)
FieldsOf(name) ==
    IF name = "transcribe" THEN { "absent", "empty", "text", "file" }
    ELSE { "absent", "empty", "blank", "text" }

\* questionsAsked, totalQuestions and timeRemaining of a conversation request
RouteProgress == { [q |-> q, total |-> 1, time |-> time] : q \in {0, 1}, time \in {0, 1} }

\* the defaults of the conversation route:  questionsAsked = 0, totalQuestions = 0, timeRemaining = 0
NoProgress == [q |-> 0, total |-> 0, time |-> 0]

\* a request: readable is whether request.json() or request.formData() succeeds
Requests ==
    { [name |-> name, readable |-> readable, field |-> field, progress |-> progress] :
        name \in RouteNames, readable \in BOOLEAN,
        field \in { "absent", "empty", "blank", "text", "file" },
        progress \in RouteProgress \cup {NoProgress} }

\* the requests of the model: a progress only for the conversation route
WellFormed(req) ==
    /\ req.field \in FieldsOf(req.name)
    /\ req.progress = NoProgress <=> req.name # "conversation"

\* what a handler meets outside the request: whether OPENAI_API_KEY is set,
\* whether the call of OpenAI returns or throws, the content of a chat
\* completion, whether writeFile succeeds
Environments ==
    [ apiKey : BOOLEAN, openai : {"ok", "throws"}, content : ModelContents,
      disk : {"ok", "throws"} ]

\* a response: the HTTP status, the number of calls of OpenAI made for it,
\* where an exception was raised ("none", "reading" the body, or "after"
\* the check of the required input) and the testComplete of its body
Response(status, calls, threw, complete) ==
    [status |-> status, calls |-> calls, threw |-> threw, complete |-> complete]

\* a check that lets the empty string through; C31 does not hold of it
Falsy_OnlyAbsent(field) == field = "absent"

\* !text, !transcription, !userResponse, !audioFile
Falsy(field) == field \in { "absent", "empty" }

\* POST of the speak route
SpeakPost(req, env) ==
    IF ~req.readable THEN Response(500, 0, "reading", FALSE)
    ELSE IF Falsy(req.field) THEN Response(400, 0, "none", FALSE)
    ELSE IF ~env.apiKey THEN Response(500, 0, "none", FALSE)
    ELSE IF env.openai = "throws" THEN Response(500, 1, "after", FALSE)
    ELSE Response(200, 1, "none", FALSE)

\* POST of the evaluate route; without a key, new OpenAI throws
EvaluatePost(req, env) ==
    IF ~req.readable THEN Response(500, 0, "reading", FALSE)
    ELSE IF Falsy(req.field) THEN Response(400, 0, "none", FALSE)
    ELSE IF ~env.apiKey THEN Response(500, 0, "after", FALSE)
    ELSE IF env.openai = "throws" THEN Response(500, 1, "after", FALSE)
    ELSE Response(IF EvaluateRoute(env.content).ok THEN 200 ELSE 500, 1,
                  IF ParseContent(env.content) = "throws" THEN "after" ELSE "none", FALSE)

\* POST of the conversation route
ConversationPost(req, env) ==
    IF ~req.readable THEN Response(500, 0, "reading", FALSE)
    ELSE IF Falsy(req.field) THEN Response(400, 0, "none", FALSE)
    ELSE IF ~env.apiKey THEN Response(500, 0, "none", FALSE)
    ELSE IF RouteTestComplete(req.progress.q, req.progress.total, req.progress.time)
         THEN Response(200, 0, "none", TRUE)
    ELSE IF env.openai = "throws" THEN Response(500, 1, "after", FALSE)
    ELSE Response(200, 1, "none", FALSE)

\* POST of the transcribe route; a string has no arrayBuffer, so
\* audioFile.arrayBuffer() throws for a text field; without a key, new
\* OpenAI throws
TranscribePost(req, env) ==
    IF ~req.readable THEN Response(500, 0, "reading", FALSE)
    ELSE IF Falsy(req.field) THEN Response(400, 0, "none", FALSE)
    ELSE IF req.field = "text" THEN Response(500, 0, "after", FALSE)
    ELSE IF env.disk = "throws" THEN Response(500, 0, "after", FALSE)
    ELSE IF ~env.apiKey THEN Response(500, 0, "after", FALSE)
    ELSE IF env.openai = "throws" THEN Response(500, 1, "after", FALSE)
    ELSE Response(200, 1, "none", FALSE)

\* the handler of the route a request is sent to
Post(req, env) ==
    CASE req.name = "speak" -> SpeakPost(req, env)
      [] req.name = "evaluate" -> EvaluatePost(req, env)
      [] req.name = "conversation" -> ConversationPost(req, env)
      [] OTHER -> TranscribePost(req, env)

\* ------------------------------------------------------------------ actions
\* startConversationMode, then the conversation-init effect when
\* conversationMode changed (its dependencies are conversationMode, testPart):
\* initializeTestSession, the two opening messages, speakText.  time is the
\* timeRemaining that initializeTestSession sets, question the content of
\* the question message.
StartSession(time, question) ==
    /\ conversationMode' = TRUE
    /\ evaluation' = <<>>
    /\ IF ~conversationMode
       THEN /\ CanSend
            /\ irregular' = Sent
            /\ testSession' = << NewSession(testPart) >>
            /\ timeRemaining' = time
            /\ allTranscriptions' = <<>>
            /\ testComplete' = FALSE
            /\ conversation' = << Msg("assistant", "intro", <<>>),
                                  Msg("assistant", "question", question) >>
            /\ examinerSpeaking' = TRUE
            /\ gen' = FreshGen
            /\ scoringReqs' = <<>>
            /\ lastOp' = "step"
       ELSE /\ irregular < MaxIrregular
            /\ irregular' = irregular + 1
            /\ conversation' = <<>>
            /\ testComplete' = FALSE
            /\ lastOp' = "step"
            /\ UNCHANGED << testSession, timeRemaining, allTranscriptions,
                            examinerSpeaking, gen, scoringReqs >>
    /\ UNCHANGED << testPart, loading, transcription, threads >>
    /\ TimerEffect(timerRef)
    /\ UNCHANGED route

\* the Voice Conversation Mode button, with the countdown at the model's resolution
StartConversationMode == StartSession(InitialTime(testPart), SomeQuestion)

\* the Voice Conversation Mode button, with the countdown in seconds and the
\* first question drawn from the bank as on the page
StartConversationModeInSeconds ==
    \E random \in Randoms :
        StartSession(Duration(testPart) * SecondsPerMinute, FirstQuestion(testPart, random))

\* the Practice Mode button:  setConversationMode(false)
PracticeMode ==
    /\ conversationMode
    /\ conversationMode' = FALSE
    /\ lastOp' = "step"
    /\ UNCHANGED << testPart, conversation, testSession, timeRemaining, testComplete,
                    allTranscriptions, evaluation, loading, examinerSpeaking,
                    transcription, threads, gen, irregular, scoringReqs >>
    /\ TimerEffect(timerRef)
    /\ UNCHANGED route

\* a stop that only leaves conversation mode; C20 does not hold of it
StopConversationMode_ModeOnly ==
    /\ conversationMode
    /\ conversationMode' = FALSE
    /\ lastOp' = "step"
    /\ UNCHANGED << testPart, conversation, testSession, timeRemaining, testComplete,
                    allTranscriptions, evaluation, loading, examinerSpeaking,
                    transcription, threads, gen, irregular, scoringReqs >>
    /\ TimerEffect(ClearInterval(timerRef))
    /\ UNCHANGED route

\* the End Conversation button, shown in conversation mode
StopConversationMode ==
    /\ conversationMode
    /\ conversationMode' = FALSE
    /\ conversation' = <<>>
    /\ examinerSpeaking' = FALSE
    /\ testSession' = <<>>
    /\ timeRemaining' = 0
    /\ testComplete' = FALSE
    /\ allTranscriptions' = <<>>
    /\ lastOp' = "step"
    /\ UNCHANGED << testPart, evaluation, loading, transcription, threads, gen, irregular, scoringReqs >>
    /\ TimerEffect(ClearInterval(timerRef))
    /\ UNCHANGED route

\* the test part select, shown in practice mode
SetTestPart(p) ==
    /\ ~conversationMode
    /\ p # testPart
    /\ testPart' = p
    /\ lastOp' = "step"
    /\ UNCHANGED << conversationMode, conversation, testSession, timeRemaining,
                    testComplete, allTranscriptions, evaluation, loading,
                    examinerSpeaking, transcription, threads, gen, irregular, scoringReqs >>
    /\ TimerEffect(timerRef)
    /\ UNCHANGED route

\* endTest up to its first await, called with the allTranscriptions and
\* testPart of the caller's closure on behalf of session g; cur is
\* testSession as the caller's earlier updates of this step left it
EndTest(cur, at, part, g, spawned) ==
    /\ testSession' = Complete(cur)
    /\ testComplete' = TRUE
    /\ threads' = spawned
    /\ IF WantsScoring(at)
       THEN /\ loading' = TRUE
            /\ scoringReqs' = Append(scoringReqs, ScoringReq(at, part, g))
            /\ UNCHANGED examinerSpeaking
       ELSE /\ examinerSpeaking' = TRUE
            /\ UNCHANGED << loading, scoringReqs >>

\* the interval callback of the timer effect; at prev <= 1 it calls endTest,
\* whose closure is the render the effect last ran in: the effect re-runs on
\* every change of testSession, and allTranscriptions only changes together
\* with testSession, so that closure holds the current values
Tick ==
    /\ IntervalLive
    /\ timeRemaining' = TimerNext(timeRemaining)
    /\ IF timeRemaining <= 1
       THEN /\ CanSend
            /\ irregular' = Sent
            /\ EndTest(testSession, allTranscriptions, testPart, gen,
                       Spawn(EndTestThread(allTranscriptions, testPart)))
            /\ lastOp' = "step"
       ELSE /\ lastOp' = "step"
            /\ UNCHANGED << testSession, testComplete, threads, loading,
                            scoringReqs, examinerSpeaking, irregular >>
    /\ UNCHANGED << testPart, conversationMode, conversation, allTranscriptions,
                    evaluation, transcription, gen >>
    /\ TimerEffect(timerRef)
    /\ UNCHANGED route

\* the Send Response button (shown when transcription && !testComplete,
\* disabled when loading || examinerSpeaking): handleConversationResponse and
\* processUserResponse up to its first await.  endTest, called from here,
\* reads allTranscriptions of the render the click happened in.  marked: the
\* dialogue collaborator answers this request with its testComplete marker
\* for a reason of its own (a marked answer is an irregular event).
SubmitWith(marked) ==
    /\ conversationMode
    /\ transcription # <<>>
    /\ ~testComplete
    /\ ~loading
    /\ ~examinerSpeaking
    /\ IF Refuses(testSession)
       THEN /\ transcription' = <<>>
            /\ lastOp' = "submitRefused"
            /\ UNCHANGED << conversation, allTranscriptions, testSession, testComplete,
                            threads, loading, scoringReqs, examinerSpeaking, irregular >>
       ELSE /\ Sent + (IF marked THEN 1 ELSE 0) <= MaxIrregular
            /\ CanSend
            /\ irregular' = Sent + (IF marked THEN 1 ELSE 0)
            /\ conversation' = Append(conversation, Msg("user", "answer", transcription))
            /\ allTranscriptions' = Append(allTranscriptions, transcription)
            /\ IF Exhausted(Asked(testSession))
               THEN /\ EndTest(Asked(testSession), allTranscriptions, testPart, gen,
                               Spawn(EndTestThread(allTranscriptions, testPart)))
                    /\ transcription' = <<>>
                    /\ lastOp' = "step"
               ELSE /\ testSession' = Asked(testSession)
                    /\ threads' = Spawn(Thread("respond", "dialogue", gen, testPart, <<>>,
                                               \/ marked
                                               \/ RouteTestComplete(Asked(testSession)[1].questionsAsked,
                                                                    Asked(testSession)[1].totalQuestions,
                                                                    timeRemaining),
                                               allTranscriptions))
                    /\ lastOp' = "step"
                    /\ UNCHANGED << testComplete, loading, scoringReqs, examinerSpeaking,
                                    transcription >>
    /\ UNCHANGED << testPart, conversationMode, timeRemaining, evaluation, gen >>
    /\ TimerEffect(timerRef)
    /\ UNCHANGED route

\* the Send Response button, with the conversation route of the repository
HandleConversationResponse == SubmitWith(FALSE)

\* the Send Response button, with a dialogue collaborator that marks its answer
HandleConversationResponseMarked == SubmitWith(TRUE)

\* the response of /api/conversation reaches processUserResponse
DialogueResponse(t, ok) ==
    /\ t.stage = "dialogue"
    /\ ok \/ irregular < MaxIrregular
    /\ irregular' = IF ok THEN irregular ELSE irregular + 1
    /\ IF ok /\ t.complete
       THEN \* endTest(); return  -- then handleConversationResponse clears the input
            /\ EndTest(testSession, t.at, t.part, t.gen,
                       Replace(t, [EndTestThread(t.at, t.part) EXCEPT !.gen = t.gen]))
            /\ transcription' = <<>>
            /\ lastOp' = "step"
            /\ UNCHANGED conversation
       ELSE \* the examiner's reply, or the fallback of the catch block; then speakText
            /\ conversation' = WithExaminerTurn(conversation, ok)
            /\ examinerSpeaking' = TRUE
            /\ threads' = Replace(t, [t EXCEPT !.stage = "speak"])
            /\ lastOp' = "step"
            /\ UNCHANGED << testSession, testComplete, loading, scoringReqs, transcription >>
    /\ UNCHANGED << testPart, conversationMode, timeRemaining, allTranscriptions,
                    evaluation, gen >>
    /\ TimerEffect(timerRef)
    /\ UNCHANGED route

\* a speakText that lets its error escape to the caller; C19 does not hold of it
AfterSpeech_Propagates(conv, kind, ok) ==
    IF ok /\ kind = "endTest" THEN Append(conv, Msg("assistant", "completion", <<>>)) ELSE conv

\* the conversation after await speakText: endTest appends its completion
\* message, whether or not the speech failed (speakText catches its errors)
AfterSpeech(conv, kind, ok) ==
    IF kind = "endTest" THEN Append(conv, Msg("assistant", "completion", <<>>)) ELSE conv

\* speakText returns to the caller that awaited it, after the response of
\* /api/speak: a failed one (ok false) ends in the catch block, which calls
\* setExaminerSpeaking(false); then endTest appends the completion message,
\* handleConversationResponse clears the input
SpeakReturns(t, ok) ==
    /\ t.stage = "speak"
    /\ threads' = Finish(t)
    /\ examinerSpeaking' = IF ok THEN examinerSpeaking ELSE FALSE
    /\ conversation' = AfterSpeech(conversation, t.kind, ok)
    /\ transcription' = IF t.kind = "endTest" THEN transcription ELSE <<>>
    /\ lastOp' = IF ok THEN "step" ELSE "speechFailed"
    /\ UNCHANGED << testPart, conversationMode, testSession, timeRemaining, testComplete,
                    allTranscriptions, evaluation, loading, gen,
                    irregular, scoringReqs >>
    /\ TimerEffect(timerRef)
    /\ UNCHANGED route

\* setExaminerSpeaking(false): audio.onended of an audio element that was
\* started, or the catch block of a speakText that no handler awaits (the
\* opening speech).  Which audio elements play is not tracked.
SpeechSettles ==
    /\ examinerSpeaking
    /\ examinerSpeaking' = FALSE
    /\ lastOp' = "step"
    /\ UNCHANGED << testPart, conversationMode, conversation, testSession, timeRemaining,
                    testComplete, allTranscriptions, evaluation, loading, transcription,
                    threads, gen, irregular, scoringReqs >>
    /\ TimerEffect(timerRef)
    /\ UNCHANGED route

\* the response of /api/evaluate reaches evaluateCompleteTest (then endTest
\* goes on to speakText) or the practice-mode evaluate.  ok: the route was
\* reached and got an answer from the chat model; a response with res.ok is
\* stored as it is, any other outcome is only logged.  An answer of the chat
\* model that is not a well-formed Evaluation is an irregular event.
EvaluateResponse(t, ok) ==
    /\ t.stage = "evaluate"
    /\ \E content \in ModelContents :
          /\ (ok /\ content # "evaluation") => irregular < MaxIrregular
          /\ irregular' = IF ok /\ content # "evaluation" THEN irregular + 1 ELSE irregular
          /\ evaluation' = IF ok /\ EvaluateRoute(content).ok
                           THEN << [transcript |-> t.text, part |-> t.part, gen |-> t.gen,
                                    data |-> EvaluateRoute(content).data] >>
                           ELSE evaluation
    /\ loading' = FALSE
    /\ IF t.kind = "endTest"
       THEN /\ examinerSpeaking' = TRUE
            /\ threads' = Replace(t, [t EXCEPT !.stage = "speak"])
       ELSE /\ threads' = Finish(t)
            /\ UNCHANGED examinerSpeaking
    /\ lastOp' = "step"
    /\ UNCHANGED << testPart, conversationMode, conversation, testSession, timeRemaining,
                    testComplete, allTranscriptions, transcription, gen, scoringReqs >>
    /\ TimerEffect(timerRef)
    /\ UNCHANGED route

\* the Transcribe button: transcribe up to its await.  The recording it
\* sends (startRecording, stopRecording) is taken to be at hand.
Transcribe ==
    /\ ~loading
    /\ conversationMode => ~testComplete
    /\ CanSend
    /\ irregular' = Sent
    /\ loading' = TRUE
    /\ threads' = Spawn(Thread("transcribe", "transcribe", gen, testPart, <<>>, FALSE, <<>>))
    /\ lastOp' = "step"
    /\ UNCHANGED << testPart, conversationMode, conversation, testSession, timeRemaining,
                    testComplete, allTranscriptions, evaluation, examinerSpeaking,
                    transcription, gen, scoringReqs >>
    /\ TimerEffect(timerRef)
    /\ UNCHANGED route

\* the response of /api/transcribe reaches transcribe
TranscribeResponse(t, ok, text) ==
    /\ t.stage = "transcribe"
    /\ (ok /\ Trim(text) = <<>>) => irregular < MaxIrregular
    /\ irregular' = IF ok /\ Trim(text) = <<>> THEN irregular + 1 ELSE irregular
    /\ transcription' = IF ok THEN text ELSE transcription
    /\ loading' = FALSE
    /\ threads' = Finish(t)
    /\ lastOp' = "step"
    /\ UNCHANGED << testPart, conversationMode, conversation, testSession, timeRemaining,
                    testComplete, allTranscriptions, evaluation, examinerSpeaking,
                    gen, scoringReqs >>
    /\ TimerEffect(timerRef)
    /\ UNCHANGED route

\* the Get Evaluation button of practice mode: evaluate up to its await
Evaluate ==
    /\ ~conversationMode
    /\ transcription # <<>>
    /\ ~loading
    /\ CanSend
    /\ irregular' = Sent
    /\ loading' = TRUE
    /\ threads' = Spawn(Thread("practice", "evaluate", gen, testPart, transcription, FALSE, <<>>))
    /\ lastOp' = "step"
    /\ UNCHANGED << testPart, conversationMode, conversation, testSession, timeRemaining,
                    testComplete, allTranscriptions, evaluation, examinerSpeaking,
                    transcription, gen, scoringReqs >>
    /\ TimerEffect(timerRef)
    /\ UNCHANGED route

DialogueArrives == \E t \in BagToSet(threads), ok \in BOOLEAN : DialogueResponse(t, ok)
SpeechArrives == \E t \in BagToSet(threads), ok \in BOOLEAN : SpeakReturns(t, ok)
ScoreArrives == \E t \in BagToSet(threads), ok \in BOOLEAN : EvaluateResponse(t, ok)
TextArrives == \E t \in BagToSet(threads), ok \in BOOLEAN, text \in Texts : TranscribeResponse(t, ok, text)
SelectPart == \E p \in Parts : SetTestPart(p)

\* the page in conversation mode, entered and left by its two buttons
Next ==
    \/ StartConversationMode
    \/ StopConversationMode
    \/ SelectPart
    \/ Tick
    \/ HandleConversationResponse
    \/ DialogueArrives
    \/ SpeechArrives
    \/ SpeechSettles
    \/ ScoreArrives
    \/ Transcribe
    \/ TextArrives

Spec == Init /\ [][Next]_vars

\* the page with any dialogue collaborator of the interface { examinerResponse,
\* testComplete }: one that may set the marker on any answer
AnyDialogueNext ==
    \/ StartConversationMode
    \/ StopConversationMode
    \/ SelectPart
    \/ Tick
    \/ HandleConversationResponse
    \/ HandleConversationResponseMarked
    \/ DialogueArrives
    \/ SpeechArrives
    \/ SpeechSettles
    \/ ScoreArrives
    \/ Transcribe
    \/ TextArrives

AnyDialogueSpec == Init /\ [][AnyDialogueNext]_vars

\* the page with both ways out of conversation mode: End Conversation and
\* the Practice Mode button
PageNext ==
    \/ StartConversationMode
    \/ StopConversationMode
    \/ PracticeMode
    \/ SelectPart
    \/ Tick
    \/ HandleConversationResponse
    \/ DialogueArrives
    \/ SpeechArrives
    \/ SpeechSettles
    \/ ScoreArrives
    \/ Transcribe
    \/ TextArrives

PageSpec == Init /\ [][PageNext]_vars

\* a client sends a request to one of the routes
RouteReceives ==
    /\ IF route = <<>> THEN TRUE ELSE route[1].resp # <<>>
    /\ \E req \in Requests :
          /\ WellFormed(req)
          /\ route' = << [req |-> req, resp |-> <<>>] >>
    /\ UNCHANGED pageVars

\* the route handles the request and answers
RouteResponds ==
    /\ route # <<>>
    /\ route[1].resp = <<>>
    /\ \E env \in Environments :
          route' = << [route[1] EXCEPT !.resp = << Post(route[1].req, env) >>] >>
    /\ UNCHANGED pageVars

\* the API routes under the requests of any client
RoutesNext ==
    \/ RouteReceives
    \/ RouteResponds

RoutesSpec == Init /\ [][RoutesNext]_vars

\* the start, the countdown and the stop of a session with the countdown in
\* seconds, without candidate submissions
SecondsNext ==
    \/ StartConversationModeInSeconds
    \/ StopConversationMode
    \/ SelectPart
    \/ Tick
    \/ SpeechArrives
    \/ SpeechSettles

SecondsSpec == Init /\ [][SecondsNext]_vars

\* The interval of the timer effect fires every second while its condition
\* holds, and a fetch settles: its promise resolves or rejects.  The last
\* step of the countdown is disabled in the model only while a request is in
\* flight and no irregular event is left, hence strong fairness for Tick.
LiveSpec ==
    /\ Spec
    /\ SF_vars(Tick)
    /\ WF_vars(DialogueArrives)
    /\ WF_vars(SpeechArrives)
    /\ WF_vars(ScoreArrives)
    /\ WF_vars(TextArrives)

TypeOK ==
    /\ testPart \in Parts
    /\ conversationMode \in BOOLEAN
    /\ timeRemaining \in Int
    /\ testComplete \in BOOLEAN
    /\ Len(testSession) <= 1
    /\ Len(evaluation) <= 1
    /\ irregular <= MaxIrregular

\* ------------------------------------------------------------------ claims
\* scoring requests issued by endTest on behalf of the current session
SessionScoringReqs == { i \in DOMAIN scoringReqs : scoringReqs[i].gen = gen }

\* a dialogue request of the current session awaits its response
DialoguePending ==
    \E t \in BagToSet(threads) : t.stage = "dialogue" /\ t.gen = gen

\* C1: finalization is idempotent per session: at most one scoring request
\* is issued between a session start and the next stop or restart, also
\* when the question count is exhausted first and the countdown reaches 0
\* later in the same session.
C1_AtMostOneScoringRequest ==
    HasSession => Cardinality(SessionScoringReqs) <= 1

\* C2: after a Part 2 session is started and exactly one non-empty utterance
\* t is submitted (and nothing irregular happens), the session is Completed,
\* no dialogue request is in flight, and scoring was called exactly once,
\* with transcript t.
C2_Part2ScoredOnce ==
    ( /\ conversationMode
      /\ HasSession
      /\ irregular = 0
      /\ Session.totalQuestions = 1
      /\ Session.questionsAsked = 1
      /\ Len(allTranscriptions) = 1
      /\ Trim(allTranscriptions[1]) # <<>> )
    => ( /\ Session.isComplete
         /\ testComplete
         /\ ~DialoguePending
         /\ Len(scoringReqs) = 1
         /\ scoringReqs[1].transcript = allTranscriptions[1] )

\* C3: every scoring request issued by endTest carries the concatenation, in
\* submission order, of all candidate utterances accepted in the session up
\* to and including the one that triggered finalization, and the test part.
C3_ScoringCarriesAllUtterances ==
    [][ Len(scoringReqs') > Len(scoringReqs)
        => /\ scoringReqs'[Len(scoringReqs')].transcript = Combined(allTranscriptions')
           /\ scoringReqs'[Len(scoringReqs')].part = testPart' ]_vars

\* C4: while a dialogue request of the session is in flight, a second
\* candidate submission is rejected: it appends nothing to conversation or
\* allTranscriptions, leaves questionsAsked alone and sends no request.
C4_SubmissionRejectedWhileAwaitingExaminer ==
    [][ (DialoguePending /\ HandleConversationResponse)
        => UNCHANGED << conversation, allTranscriptions, testSession, threads >> ]_vars

\* C5: a dialogue response that arrives after stopConversationMode ended its
\* session is discarded: it appends nothing to conversation, triggers no
\* scoring request and leaves testSession, timeRemaining and
\* allTranscriptions as the stop left them.
C5_ResponseAfterAbortDiscarded ==
    [][ (~HasSession /\ \E t \in BagToSet(threads), ok \in BOOLEAN :
                            t.gen = gen /\ DialogueResponse(t, ok))
        => UNCHANGED << conversation, testSession, timeRemaining, allTranscriptions,
                        scoringReqs >> ]_vars

\* C6: a dialogue or scoring response to a request issued during an earlier
\* session never changes the conversation, evaluation, testSession or
\* allTranscriptions of a later session.
C6_SessionsIndependent ==
    [][ (HasSession /\ \E t \in BagToSet(threads), ok \in BOOLEAN :
                           t.gen # gen /\ (DialogueResponse(t, ok) \/ EvaluateResponse(t, ok)))
        => UNCHANGED << conversation, evaluation, testSession, allTranscriptions >> ]_vars

\* C7: whenever a session exists, questionsAsked <= totalQuestions.
C7_QuestionsWithinTotal ==
    HasSession => Session.questionsAsked <= Session.totalQuestions

\* C7 witness: a multi-question session that has used up its questions
C7_Witness ==
    /\ HasSession
    /\ Session.totalQuestions > 1
    /\ Session.questionsAsked = Session.totalQuestions

\* C8: timeRemaining is never negative, in a running session it never exceeds
\* the part's initial budget, and within a session it never increases: a
\* step either leaves it alone or lowers it by exactly 1.
C8_TimeWithinBudget ==
    /\ [](timeRemaining >= 0)
    /\ []((conversationMode /\ HasSession) => timeRemaining <= InitialTime(testPart))
    /\ [][ (HasSession /\ HasSession' /\ gen' = gen)
           => (timeRemaining' = timeRemaining \/ timeRemaining' = timeRemaining - 1) ]_vars

\* C8 witness: the countdown of a session has run down to 0
C8_Witness ==
    /\ conversationMode
    /\ HasSession
    /\ timeRemaining = 0

\* C9: once the session's completion flag is true, no candidate utterance and
\* no examiner reply (a dialogue reply or its fallback) is appended to the
\* conversation of that session.  (The closing announcement that endTest
\* itself appends is left aside here.)
C9_NoDialogueTurnAfterCompletion ==
    [][ (HasSession /\ Session.isComplete /\ HasSession' /\ gen' = gen
         /\ Len(conversation') > Len(conversation))
        => conversation'[Len(conversation')].kind \notin {"answer", "reply", "fallback"} ]_vars

\* C10: a candidate submission made when no session exists or the session is
\* Completed is refused without effect: conversation, allTranscriptions and
\* testSession stay as they are and no request is sent.
C10_RefusedSubmissionHasNoEffect ==
    [][ ((testSession = <<>> \/ testSession[1].isComplete) /\ HandleConversationResponse)
        => UNCHANGED << conversation, allTranscriptions, testSession, testComplete,
                        threads, scoringReqs >> ]_vars

\* C10 witness: a submission was refused
C10_Witness ==
    /\ lastOp = "submitRefused"
    /\ HasSession
    /\ Session.isComplete

\* the number of calls of endTest suspended at an await
EndTestsIn(b) ==
    BagCardinality([t \in { x \in BagToSet(b) : x.kind = "endTest" } |-> b[t]])

\* this step called endTest: one more call of endTest is suspended than before
EndTestCalled == EndTestsIn(threads') > EndTestsIn(threads)

\* this step sent a dialogue request
DialogueSent ==
    \E t \in BagToSet(threads') :
        t.stage = "dialogue" /\ CopiesIn(t, threads') > CopiesIn(t, threads)

\* C11: whenever an accepted submission makes questionsAsked >= totalQuestions
\* while time remains, the same step completes the session (isComplete and
\* testComplete), calls endTest and sends no dialogue request.
C11_ExhaustionCompletes ==
    [][ ( /\ HandleConversationResponse
          /\ Len(allTranscriptions') > Len(allTranscriptions)
          /\ testSession'[1].questionsAsked >= testSession'[1].totalQuestions
          /\ timeRemaining > 0 )
        => ( /\ testSession'[1].isComplete
             /\ testComplete'
             /\ EndTestCalled
             /\ ~DialogueSent ) ]_vars

\* C11 witness: the questions of a session are used up, it is complete and
\* time remains
C11_Witness ==
    /\ HasSession
    /\ Session.questionsAsked >= Session.totalQuestions
    /\ Session.isComplete
    /\ testComplete
    /\ timeRemaining > 0

\* C12: exhausting time completes the session whatever the number of
\* questions asked: a session in conversation mode leads to the countdown at
\* 0 with the session completed, unless the session is stopped first.
C12_TimeExpiryCompletes ==
    (conversationMode /\ HasSession)
        ~> (~HasSession \/ (timeRemaining = 0 /\ Session.isComplete))

\* C12 witness: the countdown ended a session that still had questions left
\* while a dialogue request was in flight
C12_Witness ==
    /\ conversationMode
    /\ HasSession
    /\ timeRemaining = 0
    /\ Session.isComplete
    /\ Session.questionsAsked < Session.totalQuestions
    /\ DialoguePending

\* C13: when endTest is called while the combined candidate transcript is
\* blank (nothing recorded, or whitespace only), the session is completed and
\* no scoring request is issued; and a Part 1 session whose countdown reached
\* 0 with nothing recorded is complete with questionsAsked = 0 and no scoring
\* request.
C13_BlankTranscriptNotScored ==
    /\ [][ (EndTestCalled /\ Trim(Combined(allTranscriptions')) = <<>>)
           => (scoringReqs' = scoringReqs /\ testComplete'
               /\ (HasSession' => testSession'[1].isComplete)) ]_vars
    /\ []( ( /\ conversationMode
             /\ HasSession
             /\ testPart = 1
             /\ allTranscriptions = <<>>
             /\ timeRemaining = 0 )
           => ( /\ Session.isComplete
                /\ Session.questionsAsked = 0
                /\ scoringReqs = <<>> ) )

\* C13 witness: a Part 1 session ran out of time with nothing recorded, and
\* the closing announcement of endTest has been made
C13_Witness ==
    /\ conversationMode
    /\ HasSession
    /\ testPart = 1
    /\ allTranscriptions = <<>>
    /\ timeRemaining = 0
    /\ Session.isComplete
    /\ scoringReqs = <<>>
    /\ Len(conversation) > 0
    /\ conversation[Len(conversation)].kind = "completion"

\* the number of dialogue requests awaiting their response
DialoguesIn(b) ==
    BagCardinality([t \in { x \in BagToSet(b) : x.stage = "dialogue" } |-> b[t]])

\* this step received the response of a dialogue request
DialogueSettled == DialoguesIn(threads') < DialoguesIn(threads)

\* the conversation holds a fallback utterance
FallbackSeen == \E i \in DOMAIN conversation : conversation[i].kind = "fallback"

\* C14: when a dialogue request fails, the fallback appends exactly one
\* generic examiner utterance and leaves questionsAsked, totalQuestions,
\* allTranscriptions and the completion flag alone; and a submission made
\* afterwards in a session that is not complete is accepted: appended to the
\* conversation and to allTranscriptions, and counted.
C14_FallbackKeepsSessionGoing ==
    /\ [][ (DialogueSettled /\ irregular' > irregular)
           => ( /\ conversation' = Append(conversation, Msg("assistant", "fallback", <<>>))
                /\ UNCHANGED << testSession, allTranscriptions, testComplete >> ) ]_vars
    /\ [][ ( /\ FallbackSeen
             /\ HasSession
             /\ ~Session.isComplete
             /\ HandleConversationResponse )
           => ( /\ conversation' = Append(conversation, Msg("user", "answer", transcription))
                /\ allTranscriptions' = Append(allTranscriptions, transcription)
                /\ testSession'[1].questionsAsked = Session.questionsAsked + 1
                /\ testSession'[1].totalQuestions = Session.totalQuestions ) ]_vars

\* C14 witness: after the second answer the dialogue request failed, and the
\* answer submitted after the fallback was accepted
C14_Witness ==
    /\ HasSession
    /\ Session.questionsAsked >= 3
    /\ \E i \in 1..(Len(conversation) - 1) :
          /\ conversation[i].kind = "fallback"
          /\ conversation[i + 1].kind = "answer"
          /\ Len(SelectSeq(SubSeq(conversation, 1, i), LAMBDA m : m.kind = "answer")) = 2

\* C15: the page is never left waiting for the examiner: the response of a
\* dialogue request, also a failed one, appends an examiner utterance or
\* completes the session, and every dialogue request in flight leads to a
\* state where none is.
C15_NeverStuckAwaitingExaminer ==
    /\ [][ DialogueSettled
           => \/ /\ Len(conversation') = Len(conversation) + 1
                 /\ conversation'[Len(conversation')].role = "assistant"
              \/ testComplete' ]_vars
    /\ (DialoguesIn(threads) > 0) ~> (DialoguesIn(threads) = 0)

\* C15 witness: the examiner has replied to an answer and no dialogue request
\* is left in flight
C15_Witness ==
    /\ HasSession
    /\ ~Session.isComplete
    /\ DialoguesIn(threads) = 0
    /\ Len(conversation) > 0
    /\ conversation[Len(conversation)].kind \in {"reply", "fallback"}

\* C16: when the scoring request of endTest fails, the session of that
\* endTest is left completed with no evaluation stored: after the failed
\* response testComplete is true and evaluation is null.  Stated for a
\* session that is shown as complete and has issued one scoring request.
C16_ScoringFailureStoresNothing ==
    [][ ( /\ HasSession
          /\ testComplete
          /\ Len(scoringReqs) = 1
          /\ \E t \in BagToSet(threads) :
                t.kind = "endTest" /\ t.gen = gen /\ EvaluateResponse(t, FALSE) )
        => (testComplete' /\ evaluation' = <<>>) ]_vars

\* what the page shows apart from its busy flags loading and examinerSpeaking
PageView ==
    << testPart, conversationMode, conversation, testSession, timeRemaining,
       testComplete, allTranscriptions, evaluation, transcription >>

\* C17: a scoring or transcription failure is surfaced as an explicit error
\* state: the failed response leaves a mark on the page beyond the reset of
\* the busy flag, so that the page after the failure differs from the page
\* of a run in which the call was never made.
C17_FailureSurfaced ==
    [][ ( \/ /\ evaluation = <<>>
             /\ \E t \in BagToSet(threads) : EvaluateResponse(t, FALSE)
          \/ /\ transcription = <<>>
             /\ \E t \in BagToSet(threads), text \in Texts : TranscribeResponse(t, FALSE, text) )
        => PageView' # PageView ]_vars

\* C18: the scoring endpoint rejects every answer of the chat model that is
\* not a well-formed Evaluation, so the evaluation the page stores is always
\* a well-formed one.
C18_OnlyWellFormedEvaluationStored ==
    evaluation # <<>> => evaluation[1].data = "evaluation"

\* C19: a failed speech request never affects the session: the caller of
\* speakText goes on as after a successful one (endTest appends its
\* completion message, processUserResponse appends nothing), and
\* testSession, timeRemaining, allTranscriptions and evaluation stay as they
\* are.
C19_SpeechFailureIsCosmetic ==
    [][ \A t \in BagToSet(threads) :
          SpeakReturns(t, FALSE)
          => ( /\ conversation' = IF t.kind = "endTest"
                                  THEN Append(conversation, Msg("assistant", "completion", <<>>))
                                  ELSE conversation
               /\ UNCHANGED << testSession, timeRemaining, allTranscriptions, evaluation >> ) ]_vars

\* C19 witness: the closing speech of endTest failed and the completion
\* message is in the conversation
C19_Witness ==
    /\ lastOp = "speechFailed"
    /\ HasSession
    /\ Session.isComplete
    /\ Len(conversation) > 0
    /\ conversation[Len(conversation)].kind = "completion"

\* C20: stopping conversation mode in a session that is not complete ends
\* the session without finalization: the step issues no scoring request and
\* sends nothing, clears testSession, allTranscriptions and conversation and
\* sets timeRemaining to 0; and while no session exists the countdown does
\* not run: timeRemaining stays 0.
C20_AbortEndsSessionWithoutFinalization ==
    /\ [][ (conversationMode /\ ~conversationMode' /\ HasSession /\ ~Session.isComplete)
           => ( /\ testSession' = <<>>
                /\ timeRemaining' = 0
                /\ allTranscriptions' = <<>>
                /\ conversation' = <<>>
                /\ ~testComplete'
                /\ UNCHANGED << scoringReqs, threads >> ) ]_vars
    /\ [](~HasSession => (timeRemaining = 0 /\ ~TimerRuns))
    /\ [][ (~HasSession /\ ~HasSession') => timeRemaining' = timeRemaining ]_vars

\* C20 witness: a session was stopped while its dialogue request was pending
C20_Witness ==
    /\ ~conversationMode
    /\ ~HasSession
    /\ timeRemaining = 0
    /\ \E t \in BagToSet(threads) : t.stage = "dialogue" /\ t.gen = gen

\* C21: starting a session for part 1, 2 or 3 yields questionsAsked = 0,
\* isComplete = false, an empty allTranscriptions, totalQuestions 6, 1 or 4
\* and timeRemaining 240, 180 or 300 seconds.
C21_StartSetsPolicy ==
    [][ (gen' # gen)
        => ( /\ testSession' = << [questionsAsked |-> 0,
                                   totalQuestions |-> CASE testPart = 1 -> 6
                                                        [] testPart = 2 -> 1
                                                        [] testPart = 3 -> 4,
                                   isComplete |-> FALSE] >>
             /\ allTranscriptions' = <<>>
             /\ timeRemaining' = CASE testPart = 1 -> 240
                                    [] testPart = 2 -> 180
                                    [] testPart = 3 -> 300
             /\ testPart' = testPart ) ]_vars

\* C21 witness: a Part 3 session has just been started
C21_Witness ==
    /\ conversationMode
    /\ HasSession
    /\ testPart = 3
    /\ Session.questionsAsked = 0
    /\ Session.totalQuestions = 4
    /\ timeRemaining = 300

\* C22: totalQuestions is fixed once a session starts: as long as the same
\* session exists no step changes it, and the test part does not change
\* while a session exists in conversation mode.
C22_TotalQuestionsFixed ==
    /\ [][ (HasSession /\ HasSession' /\ gen' = gen)
           => testSession'[1].totalQuestions = Session.totalQuestions ]_vars
    /\ [][ (HasSession /\ conversationMode) => testPart' = testPart ]_vars
    /\ []((HasSession /\ conversationMode)
            => Session.totalQuestions = TotalQuestionsFor(testPart))

\* C22 witness: a session went through submissions, a fallback and the end
\* of its countdown
C22_Witness ==
    /\ conversationMode
    /\ HasSession
    /\ Session.isComplete
    /\ Session.questionsAsked >= 2
    /\ timeRemaining = 0
    /\ FallbackSeen

\* C23: when a dialogue response carries the testComplete marker, the
\* session is completed and endTest is called instead of continuing: nothing
\* is appended to the conversation, no dialogue request is sent and the Send
\* Response button is gone (testComplete).
C23_MarkedResponseCompletes ==
    [][ (\E t \in BagToSet(threads) :
            t.stage = "dialogue" /\ t.complete /\ DialogueResponse(t, TRUE))
        => ( /\ conversation' = conversation
             /\ testComplete'
             /\ (HasSession => testSession'[1].isComplete)
             /\ EndTestCalled
             /\ ~DialogueSent ) ]_vars

\* C23 witness: a session is complete with questions and time left, which
\* only a marked dialogue response brings about
C23_Witness ==
    /\ conversationMode
    /\ HasSession
    /\ Session.isComplete
    /\ testComplete
    /\ Session.questionsAsked < Session.totalQuestions
    /\ timeRemaining > 0

\* C28: every dialogue request the page sends has questionsAsked <
\* totalQuestions and timeRemaining > 0 at the moment it is sent, so the
\* early exit of the conversation route is never taken for it.
C28_RouteNeverExitsEarly ==
    /\ [][ DialogueSent
           => ( /\ testSession'[1].questionsAsked < testSession'[1].totalQuestions
                /\ timeRemaining > 0 ) ]_vars
    /\ [](\A t \in BagToSet(threads) : t.stage = "dialogue" => ~t.complete)

\* C28 witness: a dialogue request was sent for the last question but one in
\* the last step of the countdown
C28_Witness ==
    /\ HasSession
    /\ timeRemaining = 1
    /\ Session.questionsAsked = Session.totalQuestions - 1
    /\ DialoguePending

\* C25: time expiry is atomic with completion: a session whose countdown is
\* at 0 is complete, the step that takes the countdown to 0 calls endTest
\* exactly once and completes the session, and while the countdown of a
\* session is at 0 it stays there and endTest is not called again.
C25_ExpiryAtomicWithCompletion ==
    /\ []((HasSession /\ timeRemaining = 0) => Session.isComplete)
    /\ [][ (HasSession /\ HasSession' /\ timeRemaining > 0 /\ timeRemaining' = 0)
           => ( /\ EndTestsIn(threads') = EndTestsIn(threads) + 1
                /\ testSession'[1].isComplete
                /\ testComplete' ) ]_vars
    /\ [][ (HasSession /\ HasSession' /\ gen' = gen /\ timeRemaining = 0)
           => (timeRemaining' = 0 /\ ~EndTestCalled) ]_vars

\* C25 witness: the countdown has ended a session, the call of endTest it
\* made has run to its end and nothing is in flight
C25_Witness ==
    /\ conversationMode
    /\ HasSession
    /\ timeRemaining = 0
    /\ Session.isComplete
    /\ threads = EmptyBag
    /\ Len(conversation) > 0
    /\ conversation[Len(conversation)].kind = "completion"
    /\ allTranscriptions # <<>>

\* C26: the countdown runs only while the session is in progress: once the
\* session is complete, timeRemaining is no longer lowered and no endTest is
\* called by the timer.
C26_NoCountdownAfterCompletion ==
    [][ (HasSession /\ Session.isComplete /\ HasSession' /\ gen' = gen)
        => (timeRemaining' = timeRemaining /\ ~EndTestCalled) ]_vars

\* C29: the two completion flags agree: testComplete is true exactly when a
\* session exists and its isComplete is true.
C29_CompletionFlagsAgree ==
    testComplete <=> (HasSession /\ Session.isComplete)

\* the questions of a part, as a set
QuestionBank(part) == { questions[part][i] : i \in DOMAIN questions[part] }

\* C27: starting a session emits the opening examiner turn: right after the
\* start the conversation is exactly two examiner utterances, the greeting
\* and then a first question that is in the Question Bank of the session's
\* part, and no candidate utterance.
C27_StartEmitsOpeningTurn ==
    [][ gen' # gen
        => ( /\ Len(conversation') = 2
             /\ \A i \in 1..2 : conversation'[i].role = "assistant"
             /\ conversation'[1].kind = "intro"
             /\ conversation'[2].kind = "question"
             /\ conversation'[2].text \in QuestionBank(testPart') ) ]_vars

\* C27 witness: a Part 2 session has just been started with the last
\* question of the Part 2 list
C27_Witness ==
    /\ HasSession
    /\ testPart = 2
    /\ Session.questionsAsked = 0
    /\ timeRemaining = Duration(2) * SecondsPerMinute
    /\ Len(conversation) = 2
    /\ conversation[2].text = <<"skill to learn">>

\* C30: at most one countdown interval is live at any time: the interval
\* that timerRef.current refers to is the only one that can be live, it is
\* live exactly while the condition of the timer effect holds, so none is
\* live outside conversation mode or without a session (after End
\* Conversation, after a switch to practice mode), and a step of the
\* countdown lowers timeRemaining by 1.
C30_AtMostOneInterval ==
    /\ [](strayIntervals = 0)
    /\ [](IntervalLive <=> TimerRuns)
    /\ []((~conversationMode \/ ~HasSession) => ~IntervalLive)
    /\ [][ timeRemaining' # timeRemaining
           => \/ timeRemaining' = timeRemaining - 1
              \/ gen' # gen
              \/ ~HasSession' ]_vars

\* C30 witness: the page was switched to practice mode in a running session
\* (the session and its remaining time are kept), and the interval that
\* timerRef.current refers to has been cleared
C30_Witness ==
    /\ ~conversationMode
    /\ HasSession
    /\ ~Session.isComplete
    /\ timeRemaining > 0
    /\ timeRemaining < InitialTime(testPart)
    /\ timerRef = "cleared"

\* a request has been answered
Answered == route # <<>> /\ route[1].resp # <<>>

\* C31: each route answers a request without its required input (text,
\* transcription or userResponse absent or empty, no 'audio' entry in the
\* form) with status 400 and without a call of OpenAI, for the conversation
\* route also when the test-end condition holds; and an exception raised
\* after the check of the input gives status 500, not a success.
C31_RoutesRejectAndFail ==
    Answered =>
        LET req == route[1].req
            resp == route[1].resp[1]
        IN  /\ (req.readable /\ req.field \in {"absent", "empty"})
                => (resp.status = 400 /\ resp.calls = 0 /\ ~resp.complete)
            /\ resp.status = 400 => resp.calls = 0
            /\ resp.threw = "after" => resp.status = 500

\* C31 witness: a conversation request with an empty userResponse whose
\* progress meets the test-end condition has been answered with 400
C31_Witness ==
    /\ Answered
    /\ route[1].req.name = "conversation"
    /\ route[1].req.readable
    /\ route[1].req.field = "empty"
    /\ RouteTestComplete(route[1].req.progress.q, route[1].req.progress.total,
                         route[1].req.progress.time)
    /\ route[1].resp[1].status = 400

====
